---- MODULE Spec2Model ----
(***************************************************************************)
(* Model of src/undervolt.c (intel-undervolt): the voltage-offset applier  *)
(* undervolt/undervolt_it, the power-limit applier power_limit with the    *)
(* time-window codec power_to_seconds/power_from_seconds, and the thermal  *)
(* offset applier tjoffset.                                                *)
(*                                                                         *)
(* Representation choices.                                                 *)
(*  - A uint64_t (and an int seen as a bit pattern) is the set of the      *)
(*    positions of its 1 bits: & is \cap, | is \cup, << and >> move the    *)
(*    positions.  The hexadecimal masks of the source are written with     *)
(*    Hex64 from their four 16-bit words.                                  *)
(*  - A float is the exact rational (m / q) * 2^e, a record [m, q, e].     *)
(*    log2f is never evaluated: its integer part and the comparisons of    *)
(*    its fractional part are computed on the rational r with diff =       *)
(*    log2(r), so diff < d' is r < r' and diff > 0.5 is r*r > 2.           *)
(*  - rd/wr/safe_rw either succeed or fail by the environment's choice.    *)
(***************************************************************************)
EXTENDS Integers, Sequences, FiniteSets, TLC

VARIABLES uv, power, domain, tj, hw, call, acc, out, ret, loc, codec

vars == <<uv, power, domain, tj, hw, call, acc, out, ret, loc, codec>>

(***************************************************************************)
(* Bit vectors                                                             *)
(***************************************************************************)
Pow2(n) == 2 ^ n

\* bits of a natural number below 2^31
NatBits(n) == {i \in 0..30 : (n \div Pow2(i)) % 2 = 1}

\* the 32-bit two's complement pattern of an int
IntBits(x) == IF x >= 0 THEN NatBits(x) ELSE (0..31) \ NatBits(-x - 1)

\* conversion int -> uint64_t (sign extension)
IntToU64(S) == IF 31 \in S THEN S \cup (32..63) ELSE S

Shl(S, k) == {i + k : i \in S} \cap (0..63)

Shr(S, k) == {i - k : i \in S} \cap (0..63)

\* the 64-bit constant whose 16-bit words are w3 w2 w1 w0 (most significant first)
Hex64(w3, w2, w1, w0) ==
    Shl(NatBits(w3), 48) \cup Shl(NatBits(w2), 32) \cup Shl(NatBits(w1), 16) \cup NatBits(w0)

RECURSIVE BitsVal(_)
\* the number a set of bit positions below 31 stands for
BitsVal(S) == IF S = {} THEN 0
              ELSE LET i == CHOOSE j \in S : TRUE IN Pow2(i) + BitsVal(S \ {i})

\* the field of width w at position lo, as a number
Field(S, lo, w) == BitsVal(Shr(S, lo) \cap (0..(w - 1)))

(***************************************************************************)
(* Floats as exact rationals (m / q) * 2^e                                 *)
(***************************************************************************)
Flt(m, q, e) == [m |-> m, q |-> q, e |-> e]

\* floor(log2(a / b)) for small positive a, b
RatLog2Floor(a, b) ==
    CHOOSE k \in -8..8 :
        /\ a * Pow2(IF k < 0 THEN -k ELSE 0) >= b * Pow2(IF k > 0 THEN k ELSE 0)
        /\ a * Pow2(IF k + 1 < 0 THEN -(k + 1) ELSE 0) < b * Pow2(IF k + 1 > 0 THEN k + 1 ELSE 0)

\* log2 of a power of two
RECURSIVE Log2Exact(_)
Log2Exact(n) == IF n <= 1 THEN 0 ELSE 1 + Log2Exact(n \div 2)

\* log2f(f) as [int |-> (int) log2f(f), rn/rd |-> r with log2f(f) - int = log2(r)];
\* the conversion to int truncates toward zero, so a negative non-integer
\* logarithm leaves a negative fractional part (r < 1)
Log2Parts(f) ==
    LET k0 == RatLog2Floor(f.m, f.q)
        fl == f.e + k0
        \* r0 = (m / q) / 2^k0 lies in [1, 2)
        n0 == f.m * Pow2(IF k0 < 0 THEN -k0 ELSE 0)
        d0 == f.q * Pow2(IF k0 > 0 THEN k0 ELSE 0)
    IN IF fl >= 0 \/ n0 = d0
       THEN [int |-> fl, rn |-> n0, rd |-> d0]
       ELSE [int |-> fl + 1, rn |-> n0, rd |-> 2 * d0]

(***************************************************************************)
(* Time-window codec                                                       *)
(***************************************************************************)
\* src/undervolt.c:99-103
power_to_seconds(value, time_unit) ==
    LET multiplier4 == 4 + ((value \div 64) % 4)
        exponent == (value \div 2) % 32
    IN Flt(multiplier4, 4, exponent - Log2Exact(time_unit))

\* exponent_int << 1 on an int: defined for exponent_int >= 0; for a negative
\* exponent_int the shift is undefined in C, and the builds in use produce the
\* two's complement product, others may produce any pattern (0 stands for them)
ShlInt1(x) == IF x >= 0 THEN {IntBits(2 * x)} ELSE {IntBits(2 * x), IntBits(0)}

\* one iteration of the loop of src/undervolt.c:112-128; st = [diff rational, results]
pfs_step(st, i, seconds, time_unit) ==
    LET value == Flt(seconds.m * 4, seconds.q * (4 + i), seconds.e + Log2Exact(time_unit))
        lg == Log2Parts(value)
        up == lg.int < 25 /\ lg.rn * lg.rn > 2 * lg.rd * lg.rd
        exponent_int == IF up THEN lg.int + 1 ELSE lg.int
        dn == IF up THEN 2 * lg.rd ELSE lg.rn
        dd == IF up THEN lg.rn ELSE lg.rd
    IN IF exponent_int < 32 /\ dn * st.dd < st.dn * dd
       THEN [dn |-> dn, dd |-> dd,
             res |-> {IntBits(i * 64) \cup s : s \in ShlInt1(exponent_int)}]
       ELSE st

\* src/undervolt.c:105-131; the set of the int patterns the call may return
power_from_seconds(seconds, time_unit) ==
    LET su == Flt(seconds.m * 4, seconds.q * 7, seconds.e + Log2Exact(time_unit))
    IN IF su.e + RatLog2Floor(su.m, su.q) >= 31
       THEN {IntBits(254)}
       ELSE LET s0 == [dn |-> 2, dd |-> 1, res |-> {IntBits(0)}]
                s1 == pfs_step(s0, 0, seconds, time_unit)
                s2 == pfs_step(s1, 1, seconds, time_unit)
                s3 == pfs_step(s2, 2, seconds, time_unit)
                s4 == pfs_step(s3, 3, seconds, time_unit)
            IN s4.res

(***************************************************************************)
(* Register access: rd / wr (src/undervolt.c:39-40) and the guarded memory *)
(* access safe_rw.  An access is logged with its outcome; which access of  *)
(* a call fails is the environment's choice `fail`.  Every handler stops   *)
(* issuing accesses after its first failed one, so one failure point per   *)
(* call covers every outcome.                                              *)
(***************************************************************************)
Access(op, via, addr, val, ok) ==
    [op |-> op, via |-> via, addr |-> addr, val |-> val, ok |-> ok]

\* the accesses of a log that are writes
Writes(log) == {i \in 1..Len(log) : log[i].op = "wr"}

(***************************************************************************)
(* Voltage-offset applier                                                  *)
(***************************************************************************)
Abs(x) == IF x < 0 THEN -x ELSE x

\* src/undervolt.c:56-57: ((uint64_t) (mask - absf(value) * 1.024f + 0.5f) << 21) & 0xffffffff
\* (value in whole millivolts, |value| <= 2000, where the float is not negative)
uvint_of(value) ==
    Shl(NatBits((2048500 - 1024 * Abs(value)) \div 1000), 21) \cap (0..31)

\* src/undervolt.c:58, 0x8000001000000000
RdRequest == Hex64(32768, 16, 0, 0)

\* src/undervolt.c:59, 0x100000000
WrMarker == Hex64(0, 1, 0, 0)

\* src/undervolt.c:58
rdval_of(index) == RdRequest \cup Shl(IntToU64(IntBits(index)), 40)

\* src/undervolt.c:59
wrval_of(index, value) == rdval_of(index) \cup WrMarker \cup uvint_of(value)

Low32(v) == v \cap (0..31)

\* what the voltage mailbox answers to a read request: the plane's current
\* offset, mv, encoded in bits 31:21, under the request's plane selector
VoltageResponse(request, mv) == (request \cap (32..62)) \cup uvint_of(mv)

\* mutant of ValuesDiffer: the comparison without its ctx->write guard
ValuesDiffer_unguarded(write, rdval, wrval) == Low32(rdval) # Low32(wrval)

\* src/undervolt.c:70, the read-back comparison
ValuesDiffer(write, rdval, wrval) == write /\ Low32(rdval) # Low32(wrval)

\* mutant of ctx_success: the flag is assigned the target's own outcome
ctx_success_last(ctx, errstr) == errstr = "NULL"

\* src/undervolt.c:75-76: a failed target clears ctx->success, nothing sets it
ctx_success(ctx, errstr) == IF errstr # "NULL" THEN FALSE ELSE ctx.success

\* NEW_LINE and the nl pointer only place a separator line in the output of
\* undervolt and power_limit and are left out; out keeps one entry per message
\* src/undervolt.c:52-82, one target; ctx = [write, success, acc, out],
\* env = [fail, mv]: the access of this target that fails and the offset the
\* hardware reports
undervolt_it(t, ctx, env) ==
    LET rdreq == rdval_of(t.index)
        wrval == wrval_of(t.index, t.value)
        wr1_ok == env.fail # "wr"
        write_success == (~ctx.write) \/ wr1_ok
        acc1 == IF ctx.write
                THEN <<Access("wr", "msr", "MSR_ADDR_VOLTAGE", wrval, wr1_ok)>>
                ELSE <<>>
        rq_ok == env.fail # "rq"
        acc2 == IF write_success
                THEN <<Access("wr", "msr", "MSR_ADDR_VOLTAGE", rdreq, rq_ok)>>
                ELSE <<>>
        rd_ok == env.fail # "rd"
        rdval == IF write_success /\ rq_ok /\ rd_ok
                 THEN VoltageResponse(rdreq, env.mv) ELSE rdreq
        acc3 == IF write_success /\ rq_ok
                THEN <<Access("rd", "msr", "MSR_ADDR_VOLTAGE", rdval, rd_ok)>>
                ELSE <<>>
        read_success == write_success /\ rq_ok /\ rd_ok
        errstr == IF (~write_success) \/ (~read_success) THEN "strerror"
                  ELSE IF ValuesDiffer(ctx.write, rdval, wrval) THEN "Values do not equal"
                  ELSE "NULL"
        line == IF errstr # "NULL"
                THEN [index |-> t.index, text |-> errstr]
                ELSE [index |-> t.index, text |-> "mV"]
    IN [write |-> ctx.write,
        success |-> ctx_success(ctx, errstr),
        acc |-> ctx.acc \o acc1 \o acc2 \o acc3,
        out |-> Append(ctx.out, line)]

RECURSIVE uv_list_foreach(_, _, _)
\* the list iterator of the repository's list utility: f on every element, in order
uv_list_foreach(list, ctx, envs) ==
    IF list = <<>> THEN ctx
    ELSE uv_list_foreach(Tail(list), undervolt_it(Head(list), ctx, Head(envs)), Tail(envs))

\* src/undervolt.c:84-97
undervolt(config_uv, write, envs) ==
    IF config_uv # <<>>
    THEN uv_list_foreach(config_uv,
                         [write |-> write, success |-> TRUE, acc |-> <<>>, out |-> <<>>],
                         envs)
    ELSE [write |-> write, success |-> TRUE, acc |-> <<>>, out |-> <<>>]

(***************************************************************************)
(* Power-limit applier                                                     *)
(*   pw = config->power[index]: [apply, short_term, long_term,             *)
(*        short_time_window, long_time_window]                             *)
(*   dom = power_domains[index]: [msr_addr, mem_addr], "0" = no such path  *)
(*   h = the hardware: [msr_limit, mem_limit, units, temperature]          *)
(*   fail = the access that fails: "none", "rdmsr", "rdmem", "rdunits",    *)
(*        "wrmsr", "wrmem" (safe_rw fails on a fault, also on a NULL map)  *)
(***************************************************************************)
\* mutant of PL_ReadGate: the next read is issued whatever the last one did
PL_ReadGate_ignore(addr, ok) == TRUE

\* src/undervolt.c:147-149: addr == 0 || <read of addr>, the guard of the next read
PL_ReadGate(addr, ok) == addr = "0" \/ ok

\* src/undervolt.c:147-158, the reads; an unread local keeps the value uninit
PL_Read(dom, h, fail) ==
    LET uninit == {}
        msr_ok == fail # "rdmsr"
        acc1 == IF dom.msr_addr # "0"
                THEN <<Access("rd", "msr", dom.msr_addr, h.msr_limit, msr_ok)>>
                ELSE <<>>
        go1 == PL_ReadGate(dom.msr_addr, msr_ok)
        mem_ok == fail # "rdmem"
        acc2 == IF go1 /\ dom.mem_addr # "0"
                THEN <<Access("rd", "mem", dom.mem_addr, h.mem_limit, mem_ok)>>
                ELSE <<>>
        go2 == go1 /\ PL_ReadGate(dom.mem_addr, mem_ok)
        units_ok == fail # "rdunits"
        acc3 == IF go2
                THEN <<Access("rd", "msr", "MSR_ADDR_UNITS", h.units, units_ok)>>
                ELSE <<>>
    IN [errstr |-> IF ~go1 THEN "strerror"
                   ELSE IF ~go2 THEN "Segmentation fault"
                   ELSE IF ~units_ok THEN "strerror"
                   ELSE "NULL",
        acc |-> acc1 \o acc2 \o acc3,
        msr_limit |-> IF dom.msr_addr # "0" /\ msr_ok THEN h.msr_limit ELSE uninit,
        mem_limit |-> IF go1 /\ dom.mem_addr # "0" /\ mem_ok THEN h.mem_limit ELSE uninit,
        units |-> IF go2 /\ units_ok THEN h.units ELSE uninit]

\* src/undervolt.c:160-169: one path's value stands for both; no path is an error
PL_Resolve(dom, r) ==
    IF r.errstr # "NULL" THEN r
    ELSE [r EXCEPT !.msr_limit = IF dom.msr_addr = "0" THEN r.mem_limit ELSE r.msr_limit,
                   !.mem_limit = IF dom.msr_addr # "0" /\ dom.mem_addr = "0"
                                 THEN r.msr_limit ELSE r.mem_limit,
                   !.errstr = IF dom.msr_addr = "0" /\ dom.mem_addr = "0"
                              THEN "No method available" ELSE "NULL"]

\* src/undervolt.c:176: (int) (exp2f(units & 0xf) + 0.5f)
power_unit_of(units) == Pow2(Field(units, 0, 4))

\* src/undervolt.c:177: (int) (exp2f((units >> 16) & 0xf) + 0.5f)
time_unit_of(units) == Pow2(Field(units, 16, 4))

\* src/undervolt.c:180-187: the raw 15-bit field of a requested term
PL_Term(term, power_unit) ==
    LET max_power == 32767 \div power_unit
    IN IF term < 0 THEN 0
       ELSE IF term > max_power THEN max_power
       ELSE term * power_unit

\* src/undervolt.c:190-195 and 196-201: splice a time window at bit `at`
PL_Window(value, window, time_unit, mask, at) ==
    IF window.m > 0
    THEN {(value \cap mask) \cup Shl(IntToU64(time), at) :
              time \in power_from_seconds(window, time_unit)}
    ELSE {value}

\* src/undervolt.c:181, 0xffff8000ffff8000
MaskTerms == Hex64(65535, 32768, 65535, 32768)

\* src/undervolt.c:191, 0xff01ffffffffffff
MaskShortWindow == Hex64(65281, 65535, 65535, 65535)

\* src/undervolt.c:197, 0xffffffffff01ffff
MaskLongWindow == Hex64(65535, 65535, 65281, 65535)

\* src/undervolt.c:180-201: the values the call may compute for the write
PL_Value(pw, msr_limit, power_unit, time_unit) ==
    LET masked == msr_limit \cap MaskTerms
        short_term == NatBits(PL_Term(pw.short_term, power_unit))
        long_term == NatBits(PL_Term(pw.long_term, power_unit))
        value == masked \cup Shl(short_term, 32) \cup long_term
    IN UNION {PL_Window(v, pw.long_time_window, time_unit,
                        MaskLongWindow, 16) :
                  v \in PL_Window(value, pw.short_time_window, time_unit,
                                  MaskShortWindow, 48)}

\* mutant of PL_WriteGate: the memory write is issued whatever the register write did
PL_WriteGate_ignore(addr, ok) == TRUE

\* src/undervolt.c:202-205: addr == 0 || <write to addr>, the guard of what follows
PL_WriteGate(addr, ok) == addr = "0" \/ ok

\* src/undervolt.c:202-213, the writes of value
PL_Write(dom, value, fail) ==
    LET msr_ok == fail # "wrmsr"
        acc1 == IF dom.msr_addr # "0"
                THEN <<Access("wr", "msr", dom.msr_addr, value, msr_ok)>>
                ELSE <<>>
        go1 == PL_WriteGate(dom.msr_addr, msr_ok)
        mem_ok == fail # "wrmem"
        acc2 == IF go1 /\ dom.mem_addr # "0"
                THEN <<Access("wr", "mem", dom.mem_addr, value, mem_ok)>>
                ELSE <<>>
    IN [errstr |-> IF ~go1 THEN "strerror"
                   ELSE IF ~PL_WriteGate(dom.mem_addr, mem_ok) THEN "Segmentation fault"
                   ELSE "NULL",
        acc |-> acc1 \o acc2]

\* the hardware after the accesses of a log: a successful write stores its value
RECURSIVE HwAfter(_, _)
HwAfter(h, log) ==
    IF log = <<>> THEN h
    ELSE LET a == Head(log)
             h1 == IF a.op = "wr" /\ a.ok
                   THEN IF a.via = "mem" THEN [h EXCEPT !.mem_limit = a.val]
                        ELSE IF a.addr = "MSR_ADDR_TEMPERATURE"
                             THEN [h EXCEPT !.temperature = a.val]
                        ELSE IF a.addr = "msr_addr" THEN [h EXCEPT !.msr_limit = a.val]
                        ELSE h
                   ELSE h
         IN HwAfter(h1, Tail(log))

\* src/undervolt.c:224-240, the report of a limit value
PL_Report(msr_limit, power_unit, time_unit) ==
    [text |-> "power",
     locked |-> 63 \in msr_limit,
     short_term |-> Field(msr_limit, 32, 15) \div power_unit,
     long_term |-> Field(msr_limit, 0, 15) \div power_unit,
     short_term_enabled |-> 47 \in msr_limit,
     long_term_enabled |-> 15 \in msr_limit,
     short_term_window |-> power_to_seconds(Field(msr_limit, 48, 8), time_unit),
     long_term_window |-> power_to_seconds(Field(msr_limit, 16, 8), time_unit)]

NoLoc == [msr_limit |-> {}, power_unit |-> 0, time_unit |-> 0, value |-> {}]

\* src/undervolt.c:133-248; the set of the outcomes [ret, errstr, acc, out, loc]
power_limit(pw, dom, h, nl, write, fail) ==
    IF ~pw.apply
    THEN {[ret |-> TRUE, errstr |-> "NULL", acc |-> <<>>, out |-> <<>>, loc |-> NoLoc]}
    ELSE
    LET r == PL_Resolve(dom, PL_Read(dom, h, fail))
    IN IF r.errstr # "NULL"
       THEN {[ret |-> FALSE, errstr |-> r.errstr, acc |-> r.acc,
              out |-> <<[text |-> "Failed to read power values", err |-> r.errstr]>>,
              loc |-> NoLoc]}
       ELSE
       LET power_unit == power_unit_of(r.units)
           time_unit == time_unit_of(r.units)
           Done(w, value) ==
               LET msr_limit == IF write /\ w.errstr = "NULL" THEN value ELSE r.msr_limit
                   warn == IF (~write) /\ r.msr_limit # r.mem_limit
                           THEN <<[text |-> "Warning: MSR and memory values are not equal"]>>
                           ELSE <<>>
                   rep == IF w.errstr # "NULL"
                          THEN <<[text |-> "Failed to write power values", err |-> w.errstr]>>
                          ELSE IF nl THEN <<PL_Report(msr_limit, power_unit, time_unit)>>
                          ELSE <<>>
               IN [ret |-> w.errstr = "NULL", errstr |-> w.errstr,
                   acc |-> r.acc \o w.acc, out |-> warn \o rep,
                   loc |-> [msr_limit |-> r.msr_limit, power_unit |-> power_unit,
                            time_unit |-> time_unit, value |-> value]]
       IN IF write
          THEN {Done(PL_Write(dom, value, fail), value) :
                    value \in PL_Value(pw, r.msr_limit, power_unit, time_unit)}
          ELSE {Done([errstr |-> "NULL", acc |-> <<>>], {})}

(***************************************************************************)
(* Thermal-offset applier                                                  *)
(*   t = [apply, offset]: config->tjoffset_apply, config->tjoffset         *)
(*   fail = "none", "rd" (the read of the write phase), "wr", "reread"     *)
(***************************************************************************)
\* src/undervolt.c:260, 0xffffffffc0ffffff
MaskTjoffset == Hex64(65535, 65535, 49407, 65535)

\* src/undervolt.c:258-260
TJ_Limit(limit, tjoff) ==
    LET offset == IF Abs(tjoff) > 63 THEN 63 ELSE Abs(tjoff)
    IN (limit \cap MaskTjoffset) \cup Shl(NatBits(offset), 24)

\* src/undervolt.c:255-267, the write phase
TJ_Write(t, h, fail) ==
    LET rd_ok == fail # "rd"
        limit == TJ_Limit(h.temperature, t.offset)
        wr_ok == fail # "wr"
    IN IF rd_ok
       THEN [errstr |-> IF wr_ok THEN "NULL" ELSE "strerror",
             acc |-> <<Access("rd", "msr", "MSR_ADDR_TEMPERATURE", h.temperature, TRUE),
                       Access("wr", "msr", "MSR_ADDR_TEMPERATURE", limit, wr_ok)>>]
       ELSE [errstr |-> "strerror",
             acc |-> <<Access("rd", "msr", "MSR_ADDR_TEMPERATURE", h.temperature, FALSE)>>]

\* src/undervolt.c:269-280, the report; errstr is left as it is
TJ_Report(h, errstr, nl, fail) ==
    IF errstr # "NULL"
    THEN [acc |-> <<>>,
          out |-> <<[text |-> "Failed to write temperature offset", err |-> errstr]>>]
    ELSE IF nl
    THEN IF fail # "reread"
         THEN [acc |-> <<Access("rd", "msr", "MSR_ADDR_TEMPERATURE", h.temperature, TRUE)>>,
               out |-> <<[text |-> "Critical offset",
                          offset |-> Field(h.temperature, 24, 6)]>>]
         ELSE [acc |-> <<Access("rd", "msr", "MSR_ADDR_TEMPERATURE", h.temperature, FALSE)>>,
               out |-> <<[text |-> "Failed to read temperature offset", err |-> errstr]>>]
    ELSE [acc |-> <<>>, out |-> <<>>]

\* mutant of tjoffset: the write phase runs whatever write says
tjoffset_writes(t, h, nl, write, fail) ==
    IF ~t.apply
    THEN [ret |-> TRUE, errstr |-> "NULL", acc |-> <<>>, out |-> <<>>]
    ELSE LET w == TJ_Write(t, h, fail)
             rep == TJ_Report(HwAfter(h, w.acc), w.errstr, nl, fail)
         IN [ret |-> w.errstr = "NULL", errstr |-> w.errstr,
             acc |-> w.acc \o rep.acc, out |-> rep.out]

\* src/undervolt.c:250-286
tjoffset(t, h, nl, write, fail) ==
    IF ~t.apply
    THEN [ret |-> TRUE, errstr |-> "NULL", acc |-> <<>>, out |-> <<>>]
    ELSE LET w == IF write THEN TJ_Write(t, h, fail) ELSE [errstr |-> "NULL", acc |-> <<>>]
             rep == TJ_Report(HwAfter(h, w.acc), w.errstr, nl, fail)
         IN [ret |-> w.errstr = "NULL", errstr |-> w.errstr,
             acc |-> w.acc \o rep.acc, out |-> rep.out]

(***************************************************************************)
(* Bounds and input sets                                                   *)
(***************************************************************************)
MaxTargets == 2

Targets == {[index |-> i, value |-> v] : i \in {0, 1}, v \in {0, -50}}

\* config->uv, a linked list: the NULL pointer is the list of no target
UvLists == UNION {[1..n -> Targets] : n \in 0..MaxTargets}

\* per target: the offset the hardware reports, or the access that fails
UvEnvs == {[fail |-> "none", mv |-> m] : m \in {0, 50}}
              \cup {[fail |-> f, mv |-> 0] : f \in {"wr", "rq", "rd"}}

Watts == {-1, 3, 40000}

\* seconds: none, 2^-13 s, 28 s
Windows == {Flt(0, 1, 0), Flt(1, 1, -13), Flt(7, 4, 4)}

PowerRequests ==
    {[apply |-> TRUE, short_term |-> s, long_term |-> l,
      short_time_window |-> sw, long_time_window |-> lw] :
         s \in Watts, l \in Watts, sw \in Windows, lw \in Windows}
    \cup {[apply |-> FALSE, short_term |-> 3, long_term |-> 3,
           short_time_window |-> Flt(0, 1, 0), long_time_window |-> Flt(0, 1, 0)]}

Domains == {[msr_addr |-> a, mem_addr |-> b] : a \in {"0", "msr_addr"}, b \in {"0", "mem_addr"}}

\* the units register: power unit exponent in bits 3:0, time unit exponent in bits 19:16
UnitsRegs == {NatBits(u[1]) \cup Shl(NatBits(u[2]), 16) \cup {8, 9} :
                  u \in {<<0, 10>>, <<1, 10>>, <<3, 10>>, <<14, 10>>, <<15, 10>>, <<3, 0>>}}

LimitA == Hex64(65535, 65535, 65535, 65535)

LimitB == Hex64(0, 200, 0, 160)

TjRequests == {[apply |-> a, offset |-> o] : a \in BOOLEAN, o \in {-10, 0, 70}}

DefaultPower == [apply |-> FALSE, short_term |-> 3, long_term |-> 3,
                 short_time_window |-> Flt(0, 1, 0), long_time_window |-> Flt(0, 1, 0)]

DefaultDomain == [msr_addr |-> "msr_addr", mem_addr |-> "mem_addr"]

DefaultHw == [msr_limit |-> LimitB, mem_limit |-> LimitB,
              units |-> NatBits(3) \cup Shl(NatBits(10), 16), temperature |-> {}]

NoCodec == [pc |-> "off", field |-> 0, time_unit |-> 1, seconds |-> Flt(0, 1, 0), result |-> {}]

NoCall == [op |-> "none", write |-> FALSE, nl |-> FALSE]

Fresh == /\ call = NoCall
         /\ acc = <<>>
         /\ out = <<>>
         /\ ret = TRUE
         /\ loc = NoLoc

(***************************************************************************)
(* Actions: one call of an applier                                         *)
(***************************************************************************)
Undervolt ==
    \E write \in BOOLEAN :
    \E envs \in [1..Len(uv) -> UvEnvs] :
        LET c == undervolt(uv, write, envs)
        IN /\ call' = [op |-> "undervolt", write |-> write, nl |-> FALSE]
           /\ acc' = c.acc
           /\ out' = c.out
           /\ ret' = c.success
           /\ loc' = NoLoc
           /\ UNCHANGED <<uv, power, domain, tj, hw, codec>>

PowerLimit ==
    \E write \in BOOLEAN, nl \in BOOLEAN :
    \E fail \in {"none", "rdmsr", "rdmem", "rdunits", "wrmsr", "wrmem"} :
    \E r \in power_limit(power, domain, hw, nl, write, fail) :
        /\ call' = [op |-> "power_limit", write |-> write, nl |-> nl]
        /\ acc' = r.acc
        /\ out' = r.out
        /\ ret' = r.ret
        /\ loc' = r.loc
        /\ hw' = HwAfter(hw, r.acc)
        /\ UNCHANGED <<uv, power, domain, tj, codec>>

Tjoffset ==
    \E write \in BOOLEAN, nl \in BOOLEAN :
    \E fail \in {"none", "rd", "wr", "reread"} :
        LET r == tjoffset(tj, hw, nl, write, fail)
        IN /\ call' = [op |-> "tjoffset", write |-> write, nl |-> nl]
           /\ acc' = r.acc
           /\ out' = r.out
           /\ ret' = r.ret
           /\ loc' = NoLoc
           /\ hw' = HwAfter(hw, r.acc)
           /\ UNCHANGED <<uv, power, domain, tj, codec>>

\* the codec round trip on a field: decode, then encode
ToSeconds ==
    /\ codec.pc = "field"
    /\ codec' = [codec EXCEPT !.pc = "seconds",
                              !.seconds = power_to_seconds(codec.field, codec.time_unit)]
    /\ UNCHANGED <<uv, power, domain, tj, hw, call, acc, out, ret, loc>>

FromSeconds ==
    /\ codec.pc = "seconds"
    /\ \E res \in power_from_seconds(codec.seconds, codec.time_unit) :
           codec' = [codec EXCEPT !.pc = "done", !.result = res]
    /\ UNCHANGED <<uv, power, domain, tj, hw, call, acc, out, ret, loc>>

(***************************************************************************)
(* Specifications                                                          *)
(***************************************************************************)
\* the voltage-offset applier on every list of up to MaxTargets targets
InitVolt ==
    /\ uv \in UvLists
    /\ power = DefaultPower /\ domain = DefaultDomain /\ tj = [apply |-> FALSE, offset |-> 0]
    /\ hw = DefaultHw /\ codec = NoCodec
    /\ Fresh

\* one run of the program: the applier is called once
UndervoltOnce == call.op = "none" /\ Undervolt

SpecVolt == InitVolt /\ [][UndervoltOnce]_vars

\* the power-limit applier on every request, domain kind and unit scale
InitPower ==
    /\ power \in PowerRequests
    /\ domain \in Domains
    /\ \E u \in UnitsRegs, p \in {<<LimitA, LimitB>>, <<LimitB, LimitA>>} :
           hw = [msr_limit |-> p[1], mem_limit |-> p[2], units |-> u, temperature |-> {}]
    /\ uv = <<>> /\ tj = [apply |-> FALSE, offset |-> 0] /\ codec = NoCodec
    /\ Fresh

\* one run of the program: the applier is called once
PowerLimitOnce == call.op = "none" /\ PowerLimit

SpecPower == InitPower /\ [][PowerLimitOnce]_vars

\* the power terms alone: every power unit 2^0..2^15, no time window requested
InitClamp ==
    /\ \E st \in Watts, lt \in Watts :
           power = [apply |-> TRUE, short_term |-> st, long_term |-> lt,
                    short_time_window |-> Flt(0, 1, 0), long_time_window |-> Flt(0, 1, 0)]
    /\ domain \in Domains
    /\ \E pe \in 0..15, p \in {<<LimitA, LimitB>>, <<LimitB, LimitA>>} :
           hw = [msr_limit |-> p[1], mem_limit |-> p[2],
                 units |-> NatBits(pe) \cup Shl(NatBits(10), 16), temperature |-> {}]
    /\ uv = <<>> /\ tj = [apply |-> FALSE, offset |-> 0] /\ codec = NoCodec
    /\ Fresh

SpecClamp == InitClamp /\ [][PowerLimitOnce]_vars

\* the thermal-offset applier
InitTj ==
    /\ tj \in TjRequests
    /\ \E t \in {{}, LimitA, Hex64(0, 0, 25600, 0)} :
           hw = [DefaultHw EXCEPT !.temperature = t]
    /\ uv = <<>> /\ power = DefaultPower /\ domain = DefaultDomain /\ codec = NoCodec
    /\ Fresh

SpecTj == InitTj /\ [][Tjoffset]_vars

\* the time-window codec on every field with bit 0 clear and every time unit
InitCodec ==
    /\ \E f \in {x \in 0..255 : x % 2 = 0}, k \in 0..15 :
           codec = [pc |-> "field", field |-> f, time_unit |-> Pow2(k),
                    seconds |-> Flt(0, 1, 0), result |-> {}]
    /\ uv = <<>> /\ power = DefaultPower /\ domain = DefaultDomain
    /\ tj = [apply |-> FALSE, offset |-> 0] /\ hw = DefaultHw
    /\ Fresh

SpecCodec == InitCodec /\ [][ToSeconds \/ FromSeconds]_vars

\* the three appliers called in any order on one configuration
Init ==
    /\ uv \in {<<>>, <<[index |-> 1, value |-> -50]>>,
               <<[index |-> 0, value |-> -50], [index |-> 1, value |-> 0]>>}
    /\ power \in {DefaultPower,
                  [apply |-> TRUE, short_term |-> 3, long_term |-> 40000,
                   short_time_window |-> Flt(0, 1, 0), long_time_window |-> Flt(7, 4, 4)]}
    /\ domain \in Domains
    /\ tj \in {[apply |-> a, offset |-> -10] : a \in BOOLEAN}
    /\ hw = DefaultHw
    /\ codec = NoCodec
    /\ Fresh

Next == Undervolt \/ PowerLimit \/ Tjoffset

Spec == Init /\ [][Next]_vars

(***************************************************************************)
(* Observations on the state after a call                                  *)
(***************************************************************************)
Called(op) == call.op = op

\* a writing power_limit call that got past its reads and computed a value
PL_Wrote == Called("power_limit") /\ power.apply /\ call.write /\ loc.power_unit > 0

Clamp(x, lo, hi) == IF x < lo THEN lo ELSE IF x > hi THEN hi ELSE x

\* the accesses that begin a target of undervolt: its write-value when
\* writing, its read request when not
Starts == {i \in 1..Len(acc) : acc[i].op = "wr" /\ (call.write => 32 \in acc[i].val)}

\* the position of the k-th start, 0 when there is none
StartOf(k) ==
    IF k > Cardinality(Starts) THEN 0
    ELSE CHOOSE i \in Starts : Cardinality({j \in Starts : j < i}) = k - 1

\* the positions of the accesses of target k
Segment(k) ==
    {i \in 1..Len(acc) :
        /\ StartOf(k) # 0
        /\ i >= StartOf(k)
        /\ (k + 1 <= Cardinality(Starts) => i < StartOf(k + 1))}

(***************************************************************************)
(* Claims                                                                  *)
(***************************************************************************)
\* C1: a writing power_limit call whose reads succeed writes, in bits 46:32
\* and in bits 14:0, clamp(request, 0, max) * power_unit with
\* max = 0x7FFF div power_unit.
C1_ClampTimesUnit ==
    PL_Wrote =>
        \A i \in Writes(acc) :
            LET max == 32767 \div loc.power_unit
            IN /\ Field(acc[i].val, 32, 15) = Clamp(power.short_term, 0, max) * loc.power_unit
               /\ Field(acc[i].val, 0, 15) = Clamp(power.long_term, 0, max) * loc.power_unit

\* the bits a power-limit write must never change
UntouchedBits == {15, 16, 47, 48} \cup (24..31) \cup (56..63)

\* C2: the value power_limit writes agrees with the pre-write value on bits
\* 15, 16, 47, 48, 31:24 and 63:56; bits 23:17 change only if
\* long_time_window > 0 and bits 55:49 only if short_time_window > 0.
C2_MaskPreserve ==
    PL_Wrote =>
        \A i \in Writes(acc) :
            /\ acc[i].val \cap UntouchedBits = loc.msr_limit \cap UntouchedBits
            /\ power.long_time_window.m <= 0 =>
                   acc[i].val \cap (17..23) = loc.msr_limit \cap (17..23)
            /\ power.short_time_window.m <= 0 =>
                   acc[i].val \cap (49..55) = loc.msr_limit \cap (49..55)

\* C3: undervolt attempts every target of the list once, in order, whatever
\* happened to the earlier targets, and returns true exactly when every
\* target succeeded (true for the empty list).
C3_AllTargetsAttempted ==
    Called("undervolt") =>
        /\ Len(out) = Len(uv)
        /\ Cardinality(Starts) = Len(uv)
        /\ \A k \in 1..Len(uv) :
               /\ out[k].index = uv[k].index
               /\ k = 1 => StartOf(k) = 1
               /\ acc[StartOf(k)].val = (IF call.write THEN wrval_of(uv[k].index, uv[k].value)
                                         ELSE rdval_of(uv[k].index))
        /\ ret = (\A k \in 1..Len(uv) : out[k].text = "mV")

\* C3 witness: a failed first target, a second target still processed with success
C3_Witness ==
    /\ Called("undervolt") /\ Len(uv) = 2 /\ ~ret
    /\ out[1].text = "strerror" /\ out[2].text = "mV"

\* what C4 requires of the accesses of target k for it to succeed
TargetOk(k) ==
    LET seg == Segment(k)
        wrval == wrval_of(uv[k].index, uv[k].value)
        rdreq == rdval_of(uv[k].index)
    IN /\ call.write => \E i \in seg : acc[i].op = "wr" /\ acc[i].val = wrval /\ acc[i].ok
       /\ \E i \in seg : acc[i].op = "wr" /\ acc[i].val = rdreq /\ acc[i].ok
       /\ \E i \in seg : /\ acc[i].op = "rd" /\ acc[i].ok
                         /\ call.write => Low32(acc[i].val) = Low32(wrval)

\* C4: a voltage target succeeds exactly when the write of the write-value
\* succeeded (or write is false), the read request and the read succeeded and,
\* when writing, the low 32 bits read back equal those written; a mismatch
\* when writing reports "Values do not equal" and undervolt returns false.
C4_TargetSuccess ==
    Called("undervolt") /\ Len(out) = Len(uv) =>
        \A k \in 1..Len(uv) :
            /\ (out[k].text = "mV") = TargetOk(k)
            /\ (/\ call.write
                /\ \A i \in Segment(k) : acc[i].ok
                /\ \E i \in Segment(k) : acc[i].op = "rd" /\ Low32(acc[i].val) #
                                             Low32(wrval_of(uv[k].index, uv[k].value)))
               => out[k].text = "Values do not equal" /\ ~ret

\* C4 witness: a written target whose three accesses succeed and whose read-back differs
C4_Witness ==
    /\ Called("undervolt") /\ call.write /\ Len(uv) >= 1
    /\ Cardinality(Segment(1)) = 3
    /\ \A i \in Segment(1) : acc[i].ok
    /\ out[1].text = "Values do not equal"

\* C5: for a domain with no register and no memory address and apply set,
\* power_limit returns false, reports "No method available" whatever the
\* other accesses did, and attempts no write.
C5_NoMethod ==
    (Called("power_limit") /\ power.apply /\ domain.msr_addr = "0" /\ domain.mem_addr = "0") =>
        /\ ~ret
        /\ out = <<[text |-> "Failed to read power values", err |-> "No method available"]>>
        /\ Writes(acc) = {}

\* C6: power_from_seconds(power_to_seconds(field, time_unit), time_unit)
\* returns field, for every time unit 2^0..2^15 and every 8-bit field with
\* bit 0 clear.
C6_RoundTrip ==
    codec.pc = "done" => codec.result = IntBits(codec.field)

\* C7: power_limit writes only after every required read succeeded; a failed
\* read makes it return false with a read-error message, with no write and no
\* further read.
C7_NoWriteAfterFailedRead ==
    Called("power_limit") =>
        /\ \A i \in 1..Len(acc) :
               (acc[i].op = "rd" /\ ~acc[i].ok) =>
                   /\ i = Len(acc)
                   /\ ~ret
                   /\ Len(out) = 1 /\ out[1].text = "Failed to read power values"
        /\ \A j \in Writes(acc) :
               /\ \E i \in 1..(j - 1) :
                      acc[i].op = "rd" /\ acc[i].addr = "MSR_ADDR_UNITS" /\ acc[i].ok
               /\ domain.msr_addr # "0" =>
                      \E i \in 1..(j - 1) : acc[i].op = "rd" /\ acc[i].via = "msr"
                                              /\ acc[i].addr = domain.msr_addr /\ acc[i].ok
               /\ domain.mem_addr # "0" =>
                      \E i \in 1..(j - 1) : acc[i].op = "rd" /\ acc[i].via = "mem" /\ acc[i].ok

\* C7 witness: a writing call whose units read fails after both limit reads
C7_Witness ==
    /\ Called("power_limit") /\ call.write /\ Len(acc) = 3
    /\ acc[3].addr = "MSR_ADDR_UNITS" /\ ~acc[3].ok /\ ~ret

\* C8: with apply set, tjoffset returns true only if every register access
\* it attempted succeeded.
C8_TrueOnlyIfAllOk ==
    (Called("tjoffset") /\ tj.apply /\ ret) => \A i \in 1..Len(acc) : acc[i].ok

\* C9: on a domain with both paths a writing power_limit call writes the
\* register file first and the memory second, with the same value; a failed
\* register write stops it; a memory fault after the register write returns
\* false with "Segmentation fault" and leaves the register written; it returns
\* true only if both writes succeeded, and both paths then hold the value.
C9_DualPathWrite ==
    (PL_Wrote /\ domain.msr_addr # "0" /\ domain.mem_addr # "0") =>
        LET w == Writes(acc)
            first == CHOOSE i \in w : \A j \in w : i <= j
        IN /\ w # {}
           /\ acc[first].via = "msr" /\ acc[first].val = loc.value
           /\ Cardinality(w) <= 2
           /\ ~acc[first].ok => (w = {first} /\ ~ret)
           /\ \A j \in w \ {first} :
                  /\ j = first + 1
                  /\ acc[j].via = "mem" /\ acc[j].val = acc[first].val
                  /\ ~acc[j].ok =>
                         /\ ~ret
                         /\ out = <<[text |-> "Failed to write power values",
                                     err |-> "Segmentation fault"]>>
                         /\ hw.msr_limit = loc.value
           /\ ret => /\ Cardinality(w) = 2
                     /\ \A j \in w : acc[j].ok
                     /\ hw.msr_limit = loc.value /\ hw.mem_limit = loc.value

\* C9 witness: the memory write faults after the register write, the paths differ
C9_Witness ==
    /\ PL_Wrote /\ domain.msr_addr # "0" /\ domain.mem_addr # "0"
    /\ \E j \in Writes(acc) : acc[j].via = "mem" /\ ~acc[j].ok
    /\ hw.msr_limit = loc.value /\ hw.msr_limit # hw.mem_limit

\* C10: with write = false, power_limit and tjoffset issue no write, and
\* the only write undervolt issues for a target is its read request, with bit
\* 32 and bits 31:21 clear; the write-value (bit 32 set) is written only when
\* write = true, and when that write fails the target's read request and read
\* are not issued.
C10_ReadOnly ==
    /\ (~call.write /\ (Called("power_limit") \/ Called("tjoffset"))) => Writes(acc) = {}
    /\ (~call.write /\ Called("undervolt")) =>
           /\ Cardinality(Writes(acc)) = Len(uv)
           /\ \A k \in 1..Len(uv) :
                  \E i \in Writes(acc) :
                      /\ Cardinality({j \in Writes(acc) : j < i}) = k - 1
                      /\ acc[i].val = RdRequest \cup Shl(IntToU64(IntBits(uv[k].index)), 40)
                      /\ acc[i].val \cap ({32} \cup (21..31)) = {}
    /\ Called("undervolt") =>
           \A i \in Writes(acc) :
               32 \in acc[i].val =>
                   /\ call.write
                   /\ (~acc[i].ok /\ i < Len(acc)) =>
                          (acc[i + 1].op = "wr" /\ 32 \in acc[i + 1].val)

\* C10 witness: a read-only undervolt over two targets, after a call that wrote
C10_Witness ==
    /\ Called("undervolt") /\ ~call.write /\ Len(uv) = 2 /\ Len(acc) = 4
    /\ hw # DefaultHw

====
